---- MODULE Spec2Model ----
(***************************************************************************)
(* Model of the Operations & Systems pre-audit wizard (OperationsAudit)    *)
(* and of the helpers it validates its contact form with.                  *)
(*                                                                         *)
(* A text value typed by the user is a sequence of one-character strings,  *)
(* so that the validators and the phone formatter work on characters as    *)
(* the source does.  The label of a selected option is an atomic string,   *)
(* "" standing for "nothing selected".                                     *)
(*                                                                         *)
(* React state updates of one handler are committed together and the       *)
(* effects keyed on [step] run with that commit, so one handler together   *)
(* with the effects it triggers is one action.                             *)
(***************************************************************************)
EXTENDS Integers, Sequences, FiniteSets, TLC

VARIABLES
    step,             \* useState<Step>
    answers,          \* useState: q1..q9
    contact,          \* useState: firstName, email, phone, company
    consent,          \* useState(false)
    errors,           \* useState<string | null>
    submitting,       \* useState(false)
    submitted,        \* useState(false)
    confettiFiredRef, \* useRef(false): the fire-once latch
    showExitConfirm,  \* useState(false)
    showInitialLoad,  \* useState(true)
    startTimers,      \* pending setTimeout(..., 400) callbacks of START PRE-AUDIT
    loadingTimer,     \* pending setTimeout(..., 5000) callbacks of the loading effect
    inflight,         \* submitToBackend calls awaiting their response
    delivered,        \* history: a request issued since the last reset has succeeded
    alive,            \* FALSE once the page has navigated away (exit on intro)
    last,             \* history: the action taken last
    arg,              \* the argument of a helper called on its own
    res               \* the value that call returned

vars == <<step, answers, contact, consent, errors, submitting, submitted,
          confettiFiredRef, showExitConfirm, showInitialLoad, startTimers,
          loadingTimer, inflight, delivered, alive, last, arg, res>>

-----------------------------------------------------------------------------
(* Bounds of the model *)

\* pending START PRE-AUDIT timeouts
MaxStarts == 2

\* submission requests awaiting their response
MaxInflight == 2

-----------------------------------------------------------------------------
(* Steps *)

Steps == {"intro", "q1", "q2", "q3", "q4", "q5", "q6", "q7", "q8", "q9",
          "loading", "results", "contact", "final", "done"}

questionSteps == <<"q1", "q2", "q3", "q4", "q5", "q6", "q7", "q8", "q9">>

QuestionSet == {questionSteps[i] : i \in 1..Len(questionSteps)}

SingleSelectSteps == {"q1", "q3", "q4", "q5", "q7", "q8", "q9"}

inefficiencyOptions ==
    <<"Lead intake / inquiries", "Pricing or quoting", "Scheduling / logistics",
      "Internal admin or reporting", "Customer follow-ups",
      "Data scattered across tools", "Website or customer-facing systems">>

-----------------------------------------------------------------------------
(* Text helpers *)

Digits == {"0", "1", "2", "3", "4", "5", "6", "7", "8", "9"}

Whitespace == {" "}

RECURSIVE SelectChars(_, _)
SelectChars(s, keep) ==
    IF s = <<>> THEN <<>>
    ELSE IF Head(s) \in keep THEN <<Head(s)>> \o SelectChars(Tail(s), keep)
         ELSE SelectChars(Tail(s), keep)

Take(s, n) == IF Len(s) <= n THEN s ELSE SubSeq(s, 1, n)

Drop(s, n) == IF Len(s) <= n THEN <<>> ELSE SubSeq(s, n + 1, Len(s))

RECURSIVE TrimStart(_)
TrimStart(s) ==
    IF s # <<>> /\ Head(s) \in Whitespace THEN TrimStart(Tail(s)) ELSE s

RECURSIVE TrimEnd(_)
TrimEnd(s) ==
    IF s # <<>> /\ s[Len(s)] \in Whitespace
    THEN TrimEnd(SubSeq(s, 1, Len(s) - 1)) ELSE s

Trim(s) == TrimEnd(TrimStart(s))

\* every character of s[from..to] is outside [\s@], and the range is not empty
PlainRun(s, from, to) ==
    /\ from <= to
    /\ \A k \in from..to : s[k] \notin (Whitespace \cup {"@"})

-----------------------------------------------------------------------------
(* Validation helpers *)

\* mutant: the pattern asks for no dot after the @
isValidEmail_NoDot(value) ==
    LET t == Trim(value) IN
    /\ t # <<>>
    /\ \E i \in 1..Len(t) :
          /\ t[i] = "@"
          /\ PlainRun(t, 1, i - 1)
          /\ PlainRun(t, i + 1, Len(t))

\* /^[^\s@]+@[^\s@]+\.[^\s@]+$/ applied to the trimmed value
isValidEmail(value) ==
    LET t == Trim(value) IN
    /\ t # <<>>
    /\ \E i \in 1..Len(t) : \E j \in 1..Len(t) :
          /\ t[i] = "@"
          /\ t[j] = "."
          /\ PlainRun(t, 1, i - 1)
          /\ PlainRun(t, i + 1, j - 1)
          /\ PlainRun(t, j + 1, Len(t))

getPhoneDigits(value) == Take(SelectChars(value, Digits), 10)

\* mutant: the last group starts one digit late
formatPhoneDisplay_SkipsSeventh(digits) ==
    LET d == Take(SelectChars(digits, Digits), 10) IN
    IF Len(d) <= 3 THEN (IF Len(d) > 0 THEN <<"(">> \o d ELSE <<>>)
    ELSE IF Len(d) <= 6 THEN <<"(">> \o Take(d, 3) \o <<")", " ">> \o Drop(d, 3)
    ELSE <<"(">> \o Take(d, 3) \o <<")", " ">> \o SubSeq(d, 4, 6) \o <<"-">> \o Drop(d, 7)

formatPhoneDisplay(digits) ==
    LET d == Take(SelectChars(digits, Digits), 10) IN
    IF Len(d) <= 3 THEN (IF Len(d) > 0 THEN <<"(">> \o d ELSE <<>>)
    ELSE IF Len(d) <= 6 THEN <<"(">> \o Take(d, 3) \o <<")", " ">> \o Drop(d, 3)
    ELSE <<"(">> \o Take(d, 3) \o <<")", " ">> \o SubSeq(d, 4, 6) \o <<"-">> \o Drop(d, 6)

isValidPhone(value) == Len(getPhoneDigits(value)) = 10

-----------------------------------------------------------------------------
(* Messages shown to the user *)

NoError == "null"

ErrSelectLimit == "You can select up to 3 areas."

ErrRequired == "Please complete all required fields."

ErrEmail == "Please enter a valid email address."

ErrPhone == "Please enter a valid 10-digit phone number."

ErrConsent == "Please confirm you agree to be contacted."

ErrNotAvailable == "Submission isn't available right now. Please try again in a few minutes or contact us."

ErrGeneric == "Something went wrong. Please try again."

-----------------------------------------------------------------------------
(* Initial values of the component state *)

\* no helper has been called on its own
NoArg == <<>>

NoResult == [fn |-> "none"]

InitAnswers ==
    [q \in QuestionSet |-> IF q = "q2" THEN <<>> ELSE ""]

InitContact ==
    [firstName |-> <<>>, email |-> <<>>, phone |-> <<>>, company |-> <<>>]

\* the component's state after construction
WizardInit ==
    /\ step = "intro"
    /\ answers = InitAnswers
    /\ contact = InitContact
    /\ consent = FALSE
    /\ errors = NoError
    /\ submitting = FALSE
    /\ submitted = FALSE
    /\ confettiFiredRef = FALSE
    /\ showExitConfirm = FALSE
    /\ showInitialLoad = TRUE
    /\ startTimers = 0
    /\ loadingTimer = 0
    /\ inflight = [cur |-> 0, old |-> 0]
    /\ delivered = FALSE
    /\ alive = TRUE
    /\ last = "Init"

Init ==
    /\ WizardInit
    /\ arg = NoArg
    /\ res = NoResult

-----------------------------------------------------------------------------
(* What is rendered, hence which controls can be used *)

\* the main tree: not the initial splash, not the loading screen
MainRendered == alive /\ ~showInitialLoad /\ step # "loading"

\* Previous / Skip / Next live in the footer of the non-intro branch
FooterRendered == MainRendered /\ step # "intro" /\ step # "done"

\* mutant: the Skip button is rendered on every step that has the footer
SkipRendered_Always == FooterRendered

SkipRendered == FooterRendered /\ step # "contact" /\ step # "final"

ExitRendered == MainRendered /\ step # "done"

\* mutant: the contact step is passable like the optional question
canGoNext_ContactUngated ==
    IF step \in SingleSelectSteps THEN answers[step] # ""
    ELSE IF step = "q2" THEN Len(answers.q2) > 0
    ELSE TRUE

canGoNext ==
    IF step \in SingleSelectSteps THEN answers[step] # ""
    ELSE IF step = "q2" THEN Len(answers.q2) > 0
    ELSE IF step = "q6" THEN TRUE
    ELSE IF step = "contact"
         THEN /\ contact.firstName # <<>>
              /\ isValidEmail(contact.email)
              /\ isValidPhone(contact.phone)
              /\ consent
    ELSE TRUE

-----------------------------------------------------------------------------
(* The branch tables of the three footer buttons; s is returned where no   *)
(* branch matches                                                          *)

\* mutant: Previous mirrors the forward chain also on contact
PreviousTarget_MirrorsLoading(s) ==
    CASE s = "q1" -> "intro"
      [] s = "q2" -> "q1"
      [] s = "q3" -> "q2"
      [] s = "q4" -> "q3"
      [] s = "q5" -> "q4"
      [] s = "q6" -> "q5"
      [] s = "q7" -> "q6"
      [] s = "q8" -> "q7"
      [] s = "q9" -> "q8"
      [] s = "results" -> "q9"
      [] s = "contact" -> "loading"
      [] s = "final" -> "contact"
      [] OTHER -> s

PreviousTarget(s) ==
    CASE s = "q1" -> "intro"
      [] s = "q2" -> "q1"
      [] s = "q3" -> "q2"
      [] s = "q4" -> "q3"
      [] s = "q5" -> "q4"
      [] s = "q6" -> "q5"
      [] s = "q7" -> "q6"
      [] s = "q8" -> "q7"
      [] s = "q9" -> "q8"
      [] s = "results" -> "q9"
      [] s = "contact" -> "q9"
      [] s = "final" -> "contact"
      [] OTHER -> s

SkipTarget(s) ==
    CASE s = "q1" -> "q2"
      [] s = "q2" -> "q3"
      [] s = "q3" -> "q4"
      [] s = "q4" -> "q5"
      [] s = "q5" -> "q6"
      [] s = "q6" -> "q7"
      [] s = "q7" -> "q8"
      [] s = "q8" -> "q9"
      [] s = "q9" -> "loading"
      [] s = "results" -> "contact"
      [] s = "contact" -> "final"
      [] OTHER -> s

\* mutant: Next on q9 leads to the results step
NextTarget_ViaResults(s) ==
    CASE s = "q1" -> "q2"
      [] s = "q2" -> "q3"
      [] s = "q3" -> "q4"
      [] s = "q4" -> "q5"
      [] s = "q5" -> "q6"
      [] s = "q6" -> "q7"
      [] s = "q7" -> "q8"
      [] s = "q8" -> "q9"
      [] s = "q9" -> "results"
      [] s = "results" -> "contact"
      [] s = "final" -> "done"
      [] OTHER -> s

\* the synchronous branches of the Next button; on contact it calls handleSubmit
NextTarget(s) ==
    CASE s = "q1" -> "q2"
      [] s = "q2" -> "q3"
      [] s = "q3" -> "q4"
      [] s = "q4" -> "q5"
      [] s = "q5" -> "q6"
      [] s = "q6" -> "q7"
      [] s = "q7" -> "q8"
      [] s = "q8" -> "q9"
      [] s = "q9" -> "loading"
      [] s = "results" -> "contact"
      [] s = "final" -> "done"
      [] OTHER -> s

-----------------------------------------------------------------------------
(* Effects keyed on [step] *)

\* the loading effect: leaving a step runs its cleanup (clearTimeout), entering
\* loading schedules the timeout; the effect does not rerun when step is unchanged
\* mutant: the effect returns no cleanup, so a scheduled timeout is never cleared
LoadingEffect_NoCleanup(old, new, pending) ==
    IF new = old THEN pending
    ELSE IF new = "loading" THEN pending + 1
    ELSE pending

LoadingEffect(old, new, pending) ==
    IF new = old THEN pending
    ELSE IF new = "loading" THEN 1
    ELSE 0

\* the confetti effect: the latch is set the first time contact is entered
ConfettiEffect(new, fired) == fired \/ new = "contact"

\* setStep(new) together with the effects of the render that follows
SetStep(new) ==
    /\ step' = new
    /\ loadingTimer' = LoadingEffect(step, new, loadingTimer)
    /\ confettiFiredRef' = ConfettiEffect(new, confettiFiredRef)

\* mutant: goTo leaves the error message as it is
goTo_KeepsError(next) ==
    /\ UNCHANGED errors
    /\ SetStep(next)

\* goTo(next): clears the error message, then sets the step
goTo(next) ==
    /\ errors' = NoError
    /\ SetStep(next)

-----------------------------------------------------------------------------
(* Timers *)

\* the initial splash ends after 1.5 s
InitialLoadDone ==
    /\ alive /\ showInitialLoad
    /\ showInitialLoad' = FALSE
    /\ last' = "InitialLoadDone"
    /\ UNCHANGED <<arg, res>>
    /\ UNCHANGED <<step, answers, contact, consent, errors, submitting, submitted,
                   confettiFiredRef, showExitConfirm, startTimers, loadingTimer,
                   inflight, delivered, alive>>

\* START PRE-AUDIT: schedules goTo("q1") 400 ms later; nothing else changes now.
\* The button is pressed while fewer than max timeouts are pending
StartPress(max) ==
    /\ MainRendered /\ step = "intro"
    /\ startTimers < max
    /\ startTimers' = startTimers + 1
    /\ last' = "StartClick"
    /\ UNCHANGED <<arg, res>>
    /\ UNCHANGED <<step, answers, contact, consent, errors, submitting, submitted,
                   confettiFiredRef, showExitConfirm, showInitialLoad, loadingTimer,
                   inflight, delivered, alive>>

StartClick == StartPress(MaxStarts)

\* a timeout scheduled by START PRE-AUDIT fires; it is never cleared.  The
\* callback also restarts the 800 ms window in which clicks on q1's options
\* are ignored: an ignored click changes nothing, so the window needs no state
StartTimerFire ==
    /\ alive /\ startTimers > 0
    /\ startTimers' = startTimers - 1
    /\ goTo("q1")
    /\ last' = "StartTimerFire"
    /\ UNCHANGED <<arg, res>>
    /\ UNCHANGED <<answers, contact, consent, submitting, submitted,
                   showExitConfirm, showInitialLoad, inflight, delivered, alive>>

\* the timeout of the loading effect fires and is used up: goTo("contact").
\* Timeouts fire in the order of their deadlines: a 400 ms START timeout still
\* pending was scheduled before loading was entered, so it fires before the
\* 5000 ms timeout of the loading effect
LoadingTimerFire ==
    /\ alive /\ loadingTimer > 0
    /\ startTimers = 0
    /\ errors' = NoError
    /\ step' = "contact"
    /\ loadingTimer' = LoadingEffect(step, "contact", loadingTimer - 1)
    /\ confettiFiredRef' = ConfettiEffect("contact", confettiFiredRef)
    /\ last' = "LoadingTimerFire"
    /\ UNCHANGED <<arg, res>>
    /\ UNCHANGED <<answers, contact, consent, submitting, submitted,
                   showExitConfirm, showInitialLoad, startTimers, inflight,
                   delivered, alive>>

-----------------------------------------------------------------------------
(* Answering the questions *)

\* an option button of a single-select question
SelectOption(q, opt) ==
    /\ MainRendered /\ step = q /\ q \in SingleSelectSteps
    /\ answers' = [answers EXCEPT ![q] = opt]
    /\ last' = "SelectOption"
    /\ UNCHANGED <<arg, res>>
    /\ UNCHANGED <<step, contact, consent, errors, submitting, submitted,
                   confettiFiredRef, showExitConfirm, showInitialLoad, startTimers,
                   loadingTimer, inflight, delivered, alive>>

Includes(list, value) == \E i \in 1..Len(list) : list[i] = value

Without(list, value) == SelectSeq(list, LAMBDA v : v # value)

\* mutant: the limit of three selections is not enforced
ToggledList_NoLimit(list, value) ==
    IF Includes(list, value) THEN Without(list, value)
    ELSE Append(list, value)

\* mutant: a selected value is added again instead of being removed
ToggledList_NoRemove(list, value) ==
    IF Len(list) >= 3 THEN list
    ELSE Append(list, value)

\* mutant: a new selection is put in front of the list
ToggledList_Prepend(list, value) ==
    IF Includes(list, value) THEN Without(list, value)
    ELSE IF Len(list) >= 3 THEN list
    ELSE <<value>> \o list

\* the new q2 list of handleMultiToggle
ToggledList(list, value) ==
    IF Includes(list, value) THEN Without(list, value)
    ELSE IF Len(list) >= 3 THEN list
    ELSE Append(list, value)

\* the error message handleMultiToggle leaves
ToggledError(list, value) ==
    IF ~Includes(list, value) /\ Len(list) >= 3 THEN ErrSelectLimit ELSE NoError

handleMultiToggle(value) ==
    /\ MainRendered /\ step = "q2"
    /\ answers' = [answers EXCEPT !["q2"] = ToggledList(answers.q2, value)]
    /\ errors' = ToggledError(answers.q2, value)
    /\ last' = "handleMultiToggle"
    /\ UNCHANGED <<arg, res>>
    /\ UNCHANGED <<step, contact, consent, submitting, submitted,
                   confettiFiredRef, showExitConfirm, showInitialLoad, startTimers,
                   loadingTimer, inflight, delivered, alive>>

\* the textarea of q6
TypeQ6(text) ==
    /\ MainRendered /\ step = "q6"
    /\ answers' = [answers EXCEPT !["q6"] = text]
    /\ last' = "TypeQ6"
    /\ UNCHANGED <<arg, res>>
    /\ UNCHANGED <<step, contact, consent, errors, submitting, submitted,
                   confettiFiredRef, showExitConfirm, showInitialLoad, startTimers,
                   loadingTimer, inflight, delivered, alive>>

-----------------------------------------------------------------------------
(* The contact form *)

\* the value an input's onChange stores
StoredValue(field, value) ==
    IF field = "phone" THEN formatPhoneDisplay(value) ELSE value

TypeContact(field, value) ==
    /\ MainRendered /\ step = "contact"
    /\ contact' = [contact EXCEPT ![field] = StoredValue(field, value)]
    /\ last' = "TypeContact"
    /\ UNCHANGED <<arg, res>>
    /\ UNCHANGED <<step, answers, consent, errors, submitting, submitted,
                   confettiFiredRef, showExitConfirm, showInitialLoad, startTimers,
                   loadingTimer, inflight, delivered, alive>>

SetConsent(checked) ==
    /\ MainRendered /\ step = "contact"
    /\ consent' = checked
    /\ last' = "SetConsent"
    /\ UNCHANGED <<arg, res>>
    /\ UNCHANGED <<step, answers, contact, errors, submitting, submitted,
                   confettiFiredRef, showExitConfirm, showInitialLoad, startTimers,
                   loadingTimer, inflight, delivered, alive>>

-----------------------------------------------------------------------------
(* Footer navigation *)

\* mutant: going back withdraws the consent
PreviousClick_WithdrawsConsent ==
    /\ FooterRendered
    /\ SetStep(PreviousTarget(step))
    /\ consent' = FALSE
    /\ last' = "PreviousClick"
    /\ UNCHANGED <<arg, res>>
    /\ UNCHANGED <<answers, contact, errors, submitting, submitted,
                   showExitConfirm, showInitialLoad, startTimers, inflight,
                   delivered, alive>>

PreviousClick ==
    /\ FooterRendered
    /\ SetStep(PreviousTarget(step))
    /\ last' = "PreviousClick"
    /\ UNCHANGED <<arg, res>>
    /\ UNCHANGED <<answers, contact, consent, errors, submitting, submitted,
                   showExitConfirm, showInitialLoad, startTimers, inflight,
                   delivered, alive>>

SkipClick ==
    /\ SkipRendered
    /\ SetStep(SkipTarget(step))
    /\ last' = "SkipClick"
    /\ UNCHANGED <<arg, res>>
    /\ UNCHANGED <<answers, contact, consent, errors, submitting, submitted,
                   showExitConfirm, showInitialLoad, startTimers, inflight,
                   delivered, alive>>

\* mutant: consent is checked before the formats of email and phone
SubmitCheck_ConsentFirst(c, agreed) ==
    IF c.firstName = <<>> \/ c.email = <<>> \/ c.phone = <<>> THEN ErrRequired
    ELSE IF ~agreed THEN ErrConsent
    ELSE IF ~isValidEmail(c.email) THEN ErrEmail
    ELSE IF ~isValidPhone(c.phone) THEN ErrPhone
    ELSE NoError

\* the message of the first failing check of handleSubmit, NoError when all pass
SubmitCheck(c, agreed) ==
    IF c.firstName = <<>> \/ c.email = <<>> \/ c.phone = <<>> THEN ErrRequired
    ELSE IF ~isValidEmail(c.email) THEN ErrEmail
    ELSE IF ~isValidPhone(c.phone) THEN ErrPhone
    ELSE IF ~agreed THEN ErrConsent
    ELSE NoError

\* handleSubmit up to its await: a failing check only sets the message; otherwise
\* the request is sent with the answers and contact of this render
handleSubmit ==
    LET err == SubmitCheck(contact, consent) IN
    IF err # NoError
    THEN /\ errors' = err
         /\ UNCHANGED <<submitting, inflight>>
    ELSE /\ inflight.cur + inflight.old < MaxInflight
         /\ errors' = NoError
         /\ submitting' = TRUE
         /\ inflight' = [inflight EXCEPT !.cur = @ + 1]

\* mutant: the primary button stays usable while a submission is in progress
NextClick_IgnoresSubmitting ==
    /\ FooterRendered
    /\ canGoNext
    /\ IF step = "contact"
       THEN /\ handleSubmit
            /\ UNCHANGED <<step, loadingTimer, confettiFiredRef>>
       ELSE /\ SetStep(NextTarget(step))
            /\ UNCHANGED <<errors, submitting, inflight>>
    /\ last' = "NextClick"
    /\ UNCHANGED <<arg, res>>
    /\ UNCHANGED <<answers, contact, consent, submitted, showExitConfirm,
                   showInitialLoad, startTimers, delivered, alive>>

\* the primary button: Next / Unlock Results / Done
NextClick ==
    /\ FooterRendered
    /\ canGoNext /\ ~submitting
    /\ IF step = "contact"
       THEN /\ handleSubmit
            /\ UNCHANGED <<step, loadingTimer, confettiFiredRef>>
       ELSE /\ SetStep(NextTarget(step))
            /\ UNCHANGED <<errors, submitting, inflight>>
    /\ last' = "NextClick"
    /\ UNCHANGED <<arg, res>>
    /\ UNCHANGED <<answers, contact, consent, submitted, showExitConfirm,
                   showInitialLoad, startTimers, delivered, alive>>

-----------------------------------------------------------------------------
(* Completion of a submission request.  which = "cur" for a request sent   *)
(* since the last reset, "old" for one sent before it                      *)

\* mutant: a successful submission completes the wizard by itself
ResolveStep_Done == "done"

\* the step the try block sets after the awaited call
ResolveStep == "final"

\* the fetch resolved with a 2xx status: the rest of the try block, then finally
SubmitResolve(which) ==
    /\ alive /\ inflight[which] > 0
    /\ inflight' = [inflight EXCEPT ![which] = @ - 1]
    /\ submitted' = TRUE
    /\ SetStep(ResolveStep)
    /\ submitting' = FALSE
    /\ delivered' = (delivered \/ which = "cur")
    /\ last' = "SubmitResolve"
    /\ UNCHANGED <<arg, res>>
    /\ UNCHANGED <<answers, contact, consent, errors, showExitConfirm,
                   showInitialLoad, startTimers, alive>>

\* the message of the catch block for the error thrown by submitToBackend
CatchMessage(failure) ==
    IF failure = "SUBMIT_NOT_AVAILABLE" THEN ErrNotAvailable ELSE ErrGeneric

\* submitToBackend threw (status 404, another non-2xx status, or a network
\* error): the catch block, then finally
SubmitReject(which, failure) ==
    /\ alive /\ inflight[which] > 0
    /\ inflight' = [inflight EXCEPT ![which] = @ - 1]
    /\ errors' = CatchMessage(failure)
    /\ submitting' = FALSE
    /\ last' = "SubmitReject"
    /\ UNCHANGED <<arg, res>>
    /\ UNCHANGED <<step, answers, contact, consent, submitted, confettiFiredRef,
                   showExitConfirm, showInitialLoad, startTimers, loadingTimer,
                   delivered, alive>>

-----------------------------------------------------------------------------
(* Exit *)

\* mutant: asking for confirmation already clears the error message
handleExit_ClearsError ==
    /\ ExitRendered
    /\ IF step = "intro"
       THEN /\ alive' = FALSE
            /\ UNCHANGED showExitConfirm
       ELSE /\ showExitConfirm' = TRUE
            /\ UNCHANGED alive
    /\ errors' = NoError
    /\ last' = "handleExit"
    /\ UNCHANGED <<arg, res>>
    /\ UNCHANGED <<step, answers, contact, consent, submitting, submitted,
                   confettiFiredRef, showInitialLoad, startTimers, loadingTimer,
                   inflight, delivered>>

\* the EXIT button: leaves the site from intro, asks for confirmation elsewhere
handleExit ==
    /\ ExitRendered
    /\ IF step = "intro"
       THEN /\ alive' = FALSE
            /\ UNCHANGED showExitConfirm
       ELSE /\ showExitConfirm' = TRUE
            /\ UNCHANGED alive
    /\ last' = "handleExit"
    /\ UNCHANGED <<arg, res>>
    /\ UNCHANGED <<step, answers, contact, consent, errors, submitting, submitted,
                   confettiFiredRef, showInitialLoad, startTimers, loadingTimer,
                   inflight, delivered>>

\* Cancel, or a click on the backdrop of the confirmation
ExitCancel ==
    /\ MainRendered /\ showExitConfirm
    /\ showExitConfirm' = FALSE
    /\ last' = "ExitCancel"
    /\ UNCHANGED <<arg, res>>
    /\ UNCHANGED <<step, answers, contact, consent, errors, submitting, submitted,
                   confettiFiredRef, showInitialLoad, startTimers, loadingTimer,
                   inflight, delivered, alive>>

\* Exit Pre-Audit in the confirmation.  The requests already sent stay in
\* flight and the START timeouts stay scheduled; consent is not among the
\* state the function sets
doResetAudit ==
    /\ MainRendered /\ showExitConfirm
    /\ confettiFiredRef' = FALSE
    /\ answers' = InitAnswers
    /\ contact' = InitContact
    /\ errors' = NoError
    /\ submitting' = FALSE
    /\ submitted' = FALSE
    /\ step' = "intro"
    /\ loadingTimer' = LoadingEffect(step, "intro", loadingTimer)
    /\ showExitConfirm' = FALSE
    /\ inflight' = [cur |-> 0, old |-> inflight.old + inflight.cur]
    /\ delivered' = FALSE
    /\ last' = "doResetAudit"
    /\ UNCHANGED <<arg, res>>
    /\ UNCHANGED <<consent, showInitialLoad, startTimers, alive>>

-----------------------------------------------------------------------------
(* The wizard driven through navigation, exit and submission.  The data    *)
(* entered is kept to what navigation and submission depend on.            *)

SpecSelectSteps == {"q1", "q9"}

SpecOption(q) == IF q = "q1" THEN "Not sure" ELSE "Prefer not to answer"

SpecNames == {<<"A">>}

SpecEmails == {<<"a", "@", "b", ".", "c">>}

SpecPhones == {<<"5", "5", "5", "1", "2", "3", "4", "5", "6", "7">>}

Next ==
    \/ InitialLoadDone
    \/ StartClick
    \/ StartTimerFire
    \/ LoadingTimerFire
    \/ \E q \in SpecSelectSteps : SelectOption(q, SpecOption(q))
    \/ \E v \in SpecNames : TypeContact("firstName", v)
    \/ \E v \in SpecEmails : TypeContact("email", v)
    \/ \E v \in SpecPhones : TypeContact("phone", v)
    \/ \E b \in BOOLEAN : SetConsent(b)
    \/ PreviousClick
    \/ SkipClick
    \/ NextClick
    \/ \E w \in {"cur", "old"} : SubmitResolve(w)
    \/ \E w \in {"cur", "old"} : \E f \in {"SUBMIT_NOT_AVAILABLE", "Submission failed"} :
          SubmitReject(w, f)
    \/ handleExit
    \/ ExitCancel
    \/ doResetAudit

Spec == Init /\ [][Next]_vars

\* the network answers every request, and every timeout fires
SubmitSettle ==
    \E w \in {"cur", "old"} :
        \/ SubmitResolve(w)
        \/ \E f \in {"SUBMIT_NOT_AVAILABLE", "Submission failed"} : SubmitReject(w, f)

LiveSpec ==
    /\ Init /\ [][Next]_vars
    /\ WF_vars(InitialLoadDone)
    /\ WF_vars(StartTimerFire)
    /\ WF_vars(LoadingTimerFire)
    /\ WF_vars(SubmitSettle)

-----------------------------------------------------------------------------
(* The step graph *)

ForwardEdges ==
    {<<"intro", "q1">>, <<"q1", "q2">>, <<"q2", "q3">>, <<"q3", "q4">>,
     <<"q4", "q5">>, <<"q5", "q6">>, <<"q6", "q7">>, <<"q7", "q8">>,
     <<"q8", "q9">>, <<"q9", "loading">>, <<"loading", "contact">>,
     <<"contact", "final">>, <<"final", "done">>}

BackwardEdges ==
    {<<"q1", "intro">>, <<"q2", "q1">>, <<"q3", "q2">>, <<"q4", "q3">>,
     <<"q5", "q4">>, <<"q6", "q5">>, <<"q7", "q6">>, <<"q8", "q7">>,
     <<"q9", "q8">>, <<"contact", "q9">>, <<"final", "contact">>}

\* the actions that advance: Start (its timeout), Next, the loading timeout and
\* the completion of the submission sent by Next on contact
AdvanceActions == {"StartTimerFire", "NextClick", "LoadingTimerFire", "SubmitResolve"}

\* the actions of the user
UserActions == {"StartClick", "SelectOption", "handleMultiToggle", "TypeQ6",
                "TypeContact", "SetConsent", "PreviousClick", "SkipClick",
                "NextClick", "handleExit", "ExitCancel", "doResetAudit"}

-----------------------------------------------------------------------------
(* Claims *)

\* C1: every change of the step made by an advance (Start, Next, the loading
\* timer, a successful submission) follows an edge of the forward chain
\* intro -> q1 -> ... -> q9 -> loading -> contact -> final -> done.
C1_AdvanceFollowsForwardChain ==
    [][(last' \in AdvanceActions /\ step' # step) => <<step, step'>> \in ForwardEdges]_vars

\* C2: every transition into done starts from final and is made by the Done
\* button (the Next button on final), never by a timer or a completion.
C2_DoneOnlyByDoneOnFinal ==
    [][(step' = "done" /\ step # "done") => (step = "final" /\ last' = "NextClick")]_vars

C2_Witness == step = "done" /\ last = "NextClick" /\ submitted

\* C3: once the step is done it stays done.
C3_DoneIsTerminal ==
    [][step = "done" => step' = "done"]_vars

\* C4: Previous moves along the backward edges q1 -> intro, q_i -> q_(i-1),
\* final -> contact and contact -> q9, and never lands on loading.
C4_PreviousMirrorsChain ==
    [][last' = "PreviousClick" =>
          (<<step, step'>> \in BackwardEdges /\ step' # "loading")]_vars

C4_Witness == last = "PreviousClick" /\ step = "q9" /\ confettiFiredRef

\* C5: whenever the step is loading, it eventually is contact, unless the user
\* acts after the step has left loading (the timeouts fire and the network
\* answers; the user may do nothing).
C5_LoadingLeadsToContact ==
    (step = "loading") ~> (step = "contact" \/ (step # "loading" /\ last \in UserActions))

\* C6: while the step is loading no user action happens, answers, contact and
\* consent do not change, and the step can only become contact.
C6_LoadingAcceptsNoInput ==
    [][step = "loading" =>
          /\ last' \notin UserActions
          /\ answers' = answers /\ contact' = contact /\ consent' = consent
          /\ step' \in {"loading", "contact"}]_vars

\* C7: right after a confirmed reset all the mutable wizard state has its
\* initial value, consent included.
C7_ResetRestoresInitialState ==
    last = "doResetAudit" =>
        /\ step = "intro"
        /\ answers = InitAnswers
        /\ contact = InitContact
        /\ consent = FALSE
        /\ errors = NoError
        /\ submitting = FALSE
        /\ submitted = FALSE

\* C8: once a request sent since the last reset has succeeded, no further
\* request is sent before the next reset.
C8_NoRequestAfterSuccess ==
    [][inflight'.cur > inflight.cur => ~delivered]_vars

\* C9: at most one submission request is outstanding at any time.
C9_AtMostOneOutstanding ==
    inflight.cur + inflight.old <= 1

\* C10: exactly one loading timeout is pending while the step is loading and
\* none otherwise, and the timeout only ever fires while the step is loading.
C10_TimerOnlyWhileLoading ==
    /\ [](loadingTimer = IF step = "loading" THEN 1 ELSE 0)
    /\ [][last' = "LoadingTimerFire" => step = "loading"]_vars

\* loading entered again after contact, with a request still pending
C10_Witness ==
    /\ step = "loading" /\ loadingTimer = 1
    /\ confettiFiredRef
    /\ inflight.cur > 0

-----------------------------------------------------------------------------
(* The wizard driven through the multi-select question: every option of q2 *)
(* can be toggled, with navigation, exit and reset around it; the contact  *)
(* form is left empty, so nothing is submitted.                            *)

ToggleOptions == {inefficiencyOptions[i] : i \in 1..Len(inefficiencyOptions)}

ToggleNext ==
    \/ InitialLoadDone
    \/ StartClick
    \/ StartTimerFire
    \/ LoadingTimerFire
    \/ \E v \in ToggleOptions : handleMultiToggle(v)
    \/ PreviousClick
    \/ SkipClick
    \/ NextClick
    \/ handleExit
    \/ ExitCancel
    \/ doResetAudit

ToggleSpec == Init /\ [][ToggleNext]_vars

\* the positions of a value in a list
PositionsOf(list, value) == {i \in 1..Len(list) : list[i] = value}

\* C11: with three values selected, toggling a value that is not selected
\* leaves the answers as they are and sets the selection-limit message;
\* toggling a selected value removes it and keeps the two others in order.
C11_FourthSelectionRejected ==
    [][\A v \in ToggleOptions :
          (handleMultiToggle(v) /\ Len(answers.q2) = 3) =>
              IF PositionsOf(answers.q2, v) = {}
              THEN answers' = answers /\ errors' = ErrSelectLimit
              ELSE /\ Len(answers'.q2) = 2
                   /\ PositionsOf(answers'.q2, v) = {}
                   /\ \A w \in ToggleOptions \ {v} :
                         PositionsOf(answers.q2, w) # {} => PositionsOf(answers'.q2, w) # {}]_vars

C11_Witness ==
    /\ last = "handleMultiToggle"
    /\ Len(answers.q2) = 3
    /\ errors = ErrSelectLimit

\* C12: q2 never holds more than three values, nor a value twice.
C12_AtMostThreeDistinct ==
    /\ Len(answers.q2) <= 3
    /\ \A v \in ToggleOptions : Cardinality(PositionsOf(answers.q2, v)) <= 1

\* three values selected and carried by Skip and the loading timer up to
\* contact
C12_Witness ==
    /\ Len(answers.q2) = 3
    /\ step = "contact"
    /\ last = "LoadingTimerFire"

-----------------------------------------------------------------------------
(* The wizard driven through its gates: every question can be answered or *)
(* left open, the contact form filled with valid and invalid values, and   *)
(* the form submitted with success; START is pressed once and the session  *)
(* is never left or reset.                                                 *)

GateOption(q) ==
    CASE q = "q1" -> "Not sure"
      [] q = "q3" -> "No, mostly off-the-shelf tools"
      [] q = "q4" -> "Not relevant"
      [] q = "q5" -> "We patch it manually"
      [] q = "q7" -> "Yes"
      [] q = "q8" -> "50+ people"
      [] q = "q9" -> "Prefer not to answer"

GateToggles == {inefficiencyOptions[1]}

GateTexts == {"automate quoting"}

GateNames == {<<"A">>}

\* "a@b" and "a@b.c"
GateEmails == {<<"a", "@", "b">>, <<"a", "@", "b", ".", "c">>}

\* "5551234567"
GatePhones == {<<"5", "5", "5", "1", "2", "3", "4", "5", "6", "7">>}

GateNext ==
    \/ InitialLoadDone
    \/ StartPress(1)
    \/ StartTimerFire
    \/ LoadingTimerFire
    \/ \E q \in SingleSelectSteps : SelectOption(q, GateOption(q))
    \/ \E v \in GateToggles : handleMultiToggle(v)
    \/ \E t \in GateTexts : TypeQ6(t)
    \/ \E v \in GateNames : TypeContact("firstName", v)
    \/ \E v \in GateEmails : TypeContact("email", v)
    \/ \E v \in GatePhones : TypeContact("phone", v)
    \/ \E b \in BOOLEAN : SetConsent(b)
    \/ PreviousClick
    \/ SkipClick
    \/ NextClick
    \/ SubmitResolve("cur")

GateSpec == Init /\ [][GateNext]_vars

\* canAdvance as the specification tabulates it, step by step
ClaimCanAdvance ==
    CASE step \in {"q1", "q3", "q4", "q5", "q7", "q8", "q9"} -> answers[step] # ""
      [] step = "q2" -> \E v \in ToggleOptions : PositionsOf(answers.q2, v) # {}
      [] step = "q6" -> TRUE
      [] step = "contact" -> /\ Len(contact.firstName) > 0
                             /\ isValidEmail(contact.email)
                             /\ isValidPhone(contact.phone)
                             /\ consent = TRUE
      [] OTHER -> TRUE

\* the steps the table of canAdvance names
ClaimGatedSteps == QuestionSet \cup {"contact"}

\* C13 as stated: on q1..q9 and contact the primary button can be pressed exactly
\* when canAdvance holds
C13_EnabledIffCanAdvance ==
    (FooterRendered /\ step \in ClaimGatedSteps) => (ENABLED NextClick <=> ClaimCanAdvance)

\* C13 amended: on q1..q9 and contact the primary button can be pressed exactly
\* when canAdvance holds and no submission is in progress; a press that happens
\* therefore starts from such a state, and nothing else advances or submits
\* through the button
C13_EnabledIffCanAdvanceAndIdle ==
    /\ [](FooterRendered /\ step \in ClaimGatedSteps =>
             (ENABLED NextClick <=> (ClaimCanAdvance /\ ~submitting)))
    /\ [][last' = "NextClick" => ClaimCanAdvance /\ ~submitting]_vars
    /\ [][inflight'.cur > inflight.cur =>
             step = "contact" /\ ClaimCanAdvance /\ ~submitting]_vars

\* the form is complete and valid, a request is pending, the button is disabled
C13_Witness ==
    /\ step = "contact" /\ ClaimCanAdvance
    /\ submitting /\ last = "NextClick" /\ ~ENABLED NextClick

\* C14: on every question step q1..q9 Skip can be pressed, and pressing it moves
\* one step along the forward chain (q9 to loading) with the answers left as
\* they are, set or not; on contact, final and done Skip cannot be pressed
C14_SkipOnQuestionStepsOnly ==
    /\ [](step \in QuestionSet => ENABLED SkipClick)
    /\ [](step \in {"contact", "final", "done"} => ~ENABLED SkipClick)
    /\ [][SkipClick => /\ step \in QuestionSet
                       /\ <<step, step'>> \in ForwardEdges
                       /\ answers' = answers]_vars

\* q9 was skipped with no answer given, after an answered q8 was skipped too
C14_Witness ==
    /\ last = "SkipClick" /\ step = "loading"
    /\ answers.q9 = "" /\ answers.q8 # ""

-----------------------------------------------------------------------------
(* handleSubmit called on its own.  The wizard has just arrived at contact *)
(* (every question skipped, the loading timeout fired); the form is typed  *)
(* and handleSubmit is called whatever the form holds, as a caller other   *)
(* than the gated button would.                                            *)

SubmitInit ==
    /\ step = "contact"
    /\ answers = InitAnswers
    /\ contact = InitContact
    /\ consent = FALSE
    /\ errors = NoError
    /\ submitting = FALSE
    /\ submitted = FALSE
    /\ confettiFiredRef = TRUE
    /\ showExitConfirm = FALSE
    /\ showInitialLoad = FALSE
    /\ startTimers = 0
    /\ loadingTimer = 0
    /\ inflight = [cur |-> 0, old |-> 0]
    /\ delivered = FALSE
    /\ alive = TRUE
    /\ last = "LoadingTimerFire"
    /\ arg = NoArg
    /\ res = NoResult

\* a call of handleSubmit, up to its await
SubmitAttempt ==
    /\ MainRendered /\ step = "contact"
    /\ handleSubmit
    /\ last' = "handleSubmit"
    /\ UNCHANGED <<arg, res>>
    /\ UNCHANGED <<step, loadingTimer, confettiFiredRef, answers, contact, consent,
                   submitted, showExitConfirm, showInitialLoad, startTimers,
                   delivered, alive>>

\* "a@b" and "a@b.c"
SubmitEmails == {<<>>, <<"a", "@", "b">>, <<"a", "@", "b", ".", "c">>}

\* "555123" and "5551234567"
SubmitPhones == {<<>>, <<"5", "5", "5", "1", "2", "3">>,
                 <<"5", "5", "5", "1", "2", "3", "4", "5", "6", "7">>}

SubmitNext ==
    \/ \E v \in {<<>>, <<"A">>} : TypeContact("firstName", v)
    \/ \E v \in SubmitEmails : TypeContact("email", v)
    \/ \E v \in SubmitPhones : TypeContact("phone", v)
    \/ \E b \in BOOLEAN : SetConsent(b)
    \/ SubmitAttempt
    \/ SubmitResolve("cur")
    \/ \E f \in {"SUBMIT_NOT_AVAILABLE", "Submission failed"} : SubmitReject("cur", f)

SubmitSpec == SubmitInit /\ [][SubmitNext]_vars

\* the four checks as the specification orders them
ClaimCheck1 == contact.firstName # <<>> /\ contact.email # <<>> /\ contact.phone # <<>>
ClaimCheck2 == isValidEmail(contact.email)
ClaimCheck3 == isValidPhone(contact.phone)
ClaimCheck4 == consent

\* C15: a call of handleSubmit sets the message of the first check that fails in
\* the order required fields, email, phone, consent, whatever the later checks
\* would say; when a check fails no request is sent and step, submitting and
\* submitted stay as they were
C15_FirstFailingCheckWins ==
    [][last' = "handleSubmit" =>
         /\ ~ClaimCheck1 => errors' = ErrRequired
         /\ ClaimCheck1 /\ ~ClaimCheck2 => errors' = ErrEmail
         /\ ClaimCheck1 /\ ClaimCheck2 /\ ~ClaimCheck3 => errors' = ErrPhone
         /\ ClaimCheck1 /\ ClaimCheck2 /\ ClaimCheck3 /\ ~ClaimCheck4 => errors' = ErrConsent
         /\ ~(ClaimCheck1 /\ ClaimCheck2 /\ ClaimCheck3 /\ ClaimCheck4) =>
               /\ inflight' = inflight
               /\ step' = step /\ submitting' = submitting /\ submitted' = submitted]_vars

\* the email check failed first while the phone and consent checks would fail too
C15_Witness ==
    /\ last = "handleSubmit" /\ errors = ErrEmail
    /\ ClaimCheck1 /\ ~ClaimCheck3 /\ ~ClaimCheck4
    /\ inflight.cur = 0 /\ ~submitting

-----------------------------------------------------------------------------
(* isValidPhone on its own: the argument is any string of at most          *)
(* MaxPhoneLen characters over a digit and a punctuation character         *)

MaxPhoneLen == 11

PhoneChars == {"5", "-"}

PhoneInputs == UNION {[1..n -> PhoneChars] : n \in 0..MaxPhoneLen}

PhoneInit ==
    /\ WizardInit
    /\ arg \in PhoneInputs
    /\ res = NoResult

isValidPhoneCall ==
    /\ res = NoResult
    /\ res' = [fn |-> "isValidPhone", v |-> isValidPhone(arg)]
    /\ UNCHANGED <<arg, step, answers, contact, consent, errors, submitting, submitted,
                   confettiFiredRef, showExitConfirm, showInitialLoad, startTimers,
                   loadingTimer, inflight, delivered, alive, last>>

PhoneSpec == PhoneInit /\ [][isValidPhoneCall]_vars

\* the number of digit characters of s
DigitCount(s) == Cardinality({i \in 1..Len(s) : s[i] \in Digits})

\* C16: isValidPhone returns true exactly for the strings that hold exactly ten
\* digit characters, whatever else they hold; fewer and more than ten are invalid
C16_ValidIffExactlyTenDigits ==
    res.fn = "isValidPhone" => (res.v <=> DigitCount(arg) = 10)

-----------------------------------------------------------------------------
(* isValidEmail on its own: the argument is any string of at most          *)
(* MaxEmailLen characters over a letter, @, dot and space, or one of the   *)
(* two addresses the specification names                                   *)

MaxEmailLen == 6

EmailChars == {"a", "@", ".", " "}

\* "a@b" and "a@b.com"
EmailExamples == {<<"a", "@", "b">>, <<"a", "@", "b", ".", "c", "o", "m">>}

EmailInputs == EmailExamples \cup UNION {[1..n -> EmailChars] : n \in 0..MaxEmailLen}

EmailInit ==
    /\ WizardInit
    /\ arg \in EmailInputs
    /\ res = NoResult

isValidEmailCall ==
    /\ res = NoResult
    /\ res' = [fn |-> "isValidEmail", v |-> isValidEmail(arg)]
    /\ UNCHANGED <<arg, step, answers, contact, consent, errors, submitting, submitted,
                   confettiFiredRef, showExitConfirm, showInitialLoad, startTimers,
                   loadingTimer, inflight, delivered, alive, last>>

EmailSpec == EmailInit /\ [][isValidEmailCall]_vars

HasWhitespace(s) == \E k \in 1..Len(s) : s[k] \in Whitespace

\* local@domain: something before an @, and after it a domain with a dot that
\* has something on each side; no whitespace anywhere
ClaimEmailForm(s) ==
    /\ ~HasWhitespace(s)
    /\ \E i \in 2..Len(s) :
          /\ s[i] = "@"
          /\ \E j \in (i + 2)..(Len(s) - 1) : s[j] = "."

\* s is whitespace, then a string of the form local@domain, then whitespace
ClaimEmailFormPadded(s) ==
    \E lo \in 1..Len(s) : \E hi \in lo..Len(s) :
        /\ \A k \in 1..Len(s) : (k < lo \/ k > hi) => s[k] \in Whitespace
        /\ ClaimEmailForm(SubSeq(s, lo, hi))

\* a whitespace character stands between two characters that are not whitespace
HasInnerWhitespace(s) ==
    \E a \in 1..Len(s) : \E k \in 1..Len(s) : \E b \in 1..Len(s) :
        /\ a < k /\ k < b
        /\ s[a] \notin Whitespace /\ s[k] \in Whitespace /\ s[b] \notin Whitespace

\* C17 as stated: isValidEmail accepts only strings of the form local@domain
\* with no whitespace anywhere; "a@b" is rejected, "a@b.com" is accepted, every
\* string holding a whitespace character is rejected
C17_AcceptsOnlyWellFormed ==
    res.fn = "isValidEmail" =>
        /\ res.v => ClaimEmailForm(arg)
        /\ arg = <<"a", "@", "b">> => ~res.v
        /\ arg = <<"a", "@", "b", ".", "c", "o", "m">> => res.v
        /\ HasWhitespace(arg) => ~res.v

\* C17 amended: isValidEmail accepts only strings that are of the form
\* local@domain once leading and trailing whitespace is set aside; "a@b" is
\* rejected, "a@b.com" is accepted, every string with whitespace between two
\* of its other characters is rejected
C17_AcceptsOnlyWellFormedTrimmed ==
    res.fn = "isValidEmail" =>
        /\ res.v => ClaimEmailFormPadded(arg)
        /\ arg = <<"a", "@", "b">> => ~res.v
        /\ arg = <<"a", "@", "b", ".", "c", "o", "m">> => res.v
        /\ HasInnerWhitespace(arg) => ~res.v

\* an address with a space before it was accepted
C17_Witness ==
    /\ res.fn = "isValidEmail" /\ res.v
    /\ Len(arg) > 0 /\ arg[1] = " "

-----------------------------------------------------------------------------
(* The relay's message formatter, formatPayloadForTelegram.                *)
(* A JSON value of the payload is undefined (key absent), a string or an   *)
(* array of strings.  The message is kept as its list of lines before      *)
(* join("\n"): a plain line, a contact line "Name: value", or a question   *)
(* header with its step number and label.                                  *)

\* stands for the character U+2014 (em dash), the placeholder of the formatter
Placeholder == "-"

Undefined == [t |-> "undefined"]

Str(s) == [t |-> "string", v |-> s]

Arr(list) == [t |-> "array", v |-> list]

TextLine(s) == [kind |-> "text", s |-> s]

FieldLine(name, s) == [kind |-> "field", name |-> name, s |-> s]

StepHeader(num, label) == [kind |-> "step", num |-> num, label |-> label]

QUESTION_LABELS ==
    [key \in {"industry"} \cup QuestionSet |->
        CASE key = "industry" -> "Industry"
          [] key = "q1" -> "Operations setup"
          [] key = "q2" -> "Inefficient areas"
          [] key = "q3" -> "Custom tools"
          [] key = "q4" -> "Pricing/quoting importance"
          [] key = "q5" -> "When something breaks"
          [] key = "q6" -> "Ideal system (optional)"
          [] key = "q7" -> "Open to custom systems"
          [] key = "q8" -> "Company size"
          [] key = "q9" -> "Revenue range"]

\* the keys the formatter walks through
FormatKeys == <<"industry", "q1", "q2", "q3", "q4", "q5", "q6", "q7", "q8", "q9">>

\* list.join(", ")
RECURSIVE JoinComma(_)
JoinComma(list) ==
    IF Len(list) = 0 THEN ""
    ELSE IF Len(list) = 1 THEN list[1]
    ELSE list[1] \o ", " \o JoinComma(Tail(list))

\* contact.field || placeholder
ContactText(value) ==
    IF value.t = "undefined" THEN Placeholder
    ELSE IF value.v = "" THEN Placeholder
    ELSE value.v

\* the line pushed under a question header
AnswerText(value) ==
    IF value.t = "undefined" THEN Placeholder
    ELSE IF value.t = "string" THEN (IF value.v = "" THEN Placeholder ELSE value.v)
    ELSE JoinComma(value.v)

\* the three lines pushed for the i-th key
KeyBlock(answersIn, i) ==
    <<StepHeader(i, QUESTION_LABELS[FormatKeys[i]]),
      TextLine(AnswerText(answersIn[FormatKeys[i]])),
      TextLine("")>>

RECURSIVE KeyBlocks(_, _)
KeyBlocks(answersIn, i) ==
    IF i > Len(FormatKeys) THEN <<>>
    ELSE KeyBlock(answersIn, i) \o KeyBlocks(answersIn, i + 1)

\* join("\n").trimEnd() seen on the lines: the empty lines at the end disappear
RECURSIVE TrimEndLines(_)
TrimEndLines(lines) ==
    IF Len(lines) > 0 /\ lines[Len(lines)] = TextLine("")
    THEN TrimEndLines(SubSeq(lines, 1, Len(lines) - 1))
    ELSE lines

\* mutant: the lines are kept in one array shared by all invocations
formatPayloadForTelegram_SharedLines(payload) ==
    (IF res.fn = "handler" /\ res.prev.any THEN res.prev.text ELSE <<>>)
    \o TrimEndLines(
        <<TextLine("New Pre-Audit Submission"),
          TextLine(""),
          TextLine("Contact"),
          FieldLine("Name", ContactText(payload.contact.firstName)),
          FieldLine("Email", ContactText(payload.contact.email)),
          FieldLine("Phone", ContactText(payload.contact.phone)),
          FieldLine("Company", ContactText(payload.contact.company)),
          TextLine("")>>
        \o KeyBlocks(payload.answers, 1))

formatPayloadForTelegram(payload) ==
    TrimEndLines(
        <<TextLine("New Pre-Audit Submission"),
          TextLine(""),
          TextLine("Contact"),
          FieldLine("Name", ContactText(payload.contact.firstName)),
          FieldLine("Email", ContactText(payload.contact.email)),
          FieldLine("Phone", ContactText(payload.contact.phone)),
          FieldLine("Company", ContactText(payload.contact.company)),
          TextLine("")>>
        \o KeyBlocks(payload.answers, 1))

\* the values a key of the payload takes
FormatValues ==
    {Undefined, Str(""), Str("Yes"), Arr(<<>>), Arr(<<"Sales">>),
     Arr(<<"Support", "Sales">>)}

FormatKeySet == {"industry"} \cup QuestionSet

\* answers where every key holds one value, but for one key that holds another
FormatAnswersVaried ==
    {[k \in FormatKeySet |-> IF k = key THEN v ELSE base] :
        key \in FormatKeySet, v \in FormatValues, base \in FormatValues}

\* answers as the wizard sends them: no industry, q2 a list, the others strings
FormatAnswersWizard ==
    {[k \in FormatKeySet |->
         IF k = "industry" THEN Undefined
         ELSE IF k = "q2" THEN Arr(sel)
         ELSE IF k = key THEN Str(one) ELSE Str(others)] :
        key \in QuestionSet \ {"q2"},
        sel \in {<<>>, <<"Sales">>, <<"Support", "Sales">>},
        one \in {"", "Yes"}, others \in {"", "Yes"}}

FormatContacts ==
    [firstName : {Undefined, Str(""), Str("A")},
     email : {Str(""), Str("a@b.c")},
     phone : {Str(""), Str("(555) 123-4567")},
     company : {Undefined, Str(""), Str("Acme")}]

FormatInit ==
    /\ WizardInit
    /\ arg \in [answers : FormatAnswersVaried \cup FormatAnswersWizard,
                 contact : FormatContacts]
    /\ res = NoResult

formatPayloadForTelegramCall ==
    /\ res = NoResult
    /\ res' = [fn |-> "formatPayloadForTelegram", v |-> formatPayloadForTelegram(arg)]
    /\ UNCHANGED <<arg, step, answers, contact, consent, errors, submitting, submitted,
                   confettiFiredRef, showExitConfirm, showInitialLoad, startTimers,
                   loadingTimer, inflight, delivered, alive, last>>

FormatSpec == FormatInit /\ [][formatPayloadForTelegramCall]_vars

IsStepHeader(line) == line.kind = "step"

IsFieldLine(line) == line.kind = "field"

\* C18: the message is the contact block followed by question blocks, and the
\* question blocks are exactly nine: one for each of q1..q9, in that order, under
\* the label of its question
C18_NineQuestionBlocksInOrder ==
    res.fn = "formatPayloadForTelegram" =>
        LET hs == SelectSeq(res.v, IsStepHeader) IN
        /\ \A i \in 1..Len(res.v) : \A j \in 1..Len(res.v) :
              IsFieldLine(res.v[i]) /\ IsStepHeader(res.v[j]) => i < j
        /\ Len(hs) = Len(questionSteps)
        /\ \A i \in 1..Len(hs) : hs[i].label = QUESTION_LABELS[questionSteps[i]]

\* a value the placeholder policy is about: unset, the empty string, or the empty list
IsMissing(value) ==
    \/ value.t = "undefined"
    \/ value.t = "string" /\ value.v = ""
    \/ value.t = "array" /\ Len(value.v) = 0

\* the line under the header of question q is the placeholder
PlaceholderUnder(lines, q) ==
    \E p \in 1..(Len(lines) - 1) :
        /\ IsStepHeader(lines[p])
        /\ lines[p].label = QUESTION_LABELS[q]
        /\ lines[p + 1] = TextLine(Placeholder)

\* C19: every question q1..q9 whose answer is unset, the empty string or the
\* empty list has the placeholder as the line under its header, the same
\* placeholder that stands for a missing contact field
C19_OnePlaceholderPolicy ==
    res.fn = "formatPayloadForTelegram" =>
        /\ \A q \in QuestionSet :
              IsMissing(arg.answers[q]) => PlaceholderUnder(res.v, q)
        /\ IsMissing(arg.contact.firstName) => res.v[4] = FieldLine("Name", Placeholder)
        /\ IsMissing(arg.contact.company) => res.v[7] = FieldLine("Company", Placeholder)

\* the place of value in a list that holds it once
PlaceOf(list, value) == CHOOSE i \in 1..Len(list) : list[i] = value

\* the values of a list of one to three, written out with ", " between them
WrittenOut(list) ==
    CASE Len(list) = 1 -> list[1]
      [] Len(list) = 2 -> list[1] \o ", " \o list[2]
      [] Len(list) = 3 -> list[1] \o ", " \o list[2] \o ", " \o list[3]

\* C20: a toggle that adds a value puts it after the values already selected, a
\* toggle of any kind leaves the values that stay in the order they had, and the
\* formatter writes the selected values of q2 in the order of the list with
\* ", " between them
C20_SelectionOrderKept ==
    /\ [][\A v \in ToggleOptions : handleMultiToggle(v) =>
             /\ \A u \in ToggleOptions : \A w \in ToggleOptions :
                   (/\ Includes(answers.q2, u) /\ Includes(answers.q2, w)
                    /\ Includes(answers'.q2, u) /\ Includes(answers'.q2, w)) =>
                       (PlaceOf(answers.q2, u) < PlaceOf(answers.q2, w)
                          <=> PlaceOf(answers'.q2, u) < PlaceOf(answers'.q2, w))
             /\ (~Includes(answers.q2, v) /\ Includes(answers'.q2, v)) =>
                   answers'.q2[Len(answers'.q2)] = v
             /\ \A u \in ToggleOptions \ {v} :
                   Includes(answers.q2, u) <=> Includes(answers'.q2, u)]_vars
    /\ [](Len(answers.q2) > 0 =>
             AnswerText(Arr(answers.q2)) = WrittenOut(answers.q2))

\* the second option was selected before the first, and the message lists them
\* in that order, not in the order of the options
C20_Witness ==
    /\ last = "handleMultiToggle"
    /\ answers.q2 = <<inefficiencyOptions[2], inefficiencyOptions[1]>>
    /\ AnswerText(Arr(answers.q2)) =
          inefficiencyOptions[2] \o ", " \o inefficiencyOptions[1]

-----------------------------------------------------------------------------
(* The relay: the handler of /api/submit.                                  *)
(* arg holds the request being served together with the environment it is *)
(* served in, res the progress of the invocation: the outbound calls made  *)
(* so far, the payload formatted and the text handed to the outbound call, *)
(* the response once sent, and the payload, text and token of the latest   *)
(* earlier invocation that formatted.                                      *)

\* !value of an environment variable or of a JSON field: unset or ""
Falsy(value) == value.t = "undefined" \/ (value.t = "string" /\ value.v = "")

EmptyAnswers == [k \in FormatKeySet |-> Undefined]

EmptyContact ==
    [firstName |-> Undefined, email |-> Undefined, phone |-> Undefined,
     company |-> Undefined]

\* the value body is bound to: {} for a null body and for text that does not
\* parse, the parsed value for text that does, the body itself otherwise
ParsedBody(rawBody) ==
    IF rawBody.t = "null" THEN [t |-> "object", answers |-> Undefined, contact |-> Undefined]
    ELSE IF rawBody.t = "text"
         THEN (IF rawBody.parses THEN rawBody.v
               ELSE [t |-> "object", answers |-> Undefined, contact |-> Undefined])
    ELSE rawBody

\* body.answers ?? {} and body.contact ?? {}
PayloadOf(body) ==
    [answers |-> IF body.answers.t = "undefined" THEN EmptyAnswers ELSE body.answers.v,
     contact |-> IF body.contact.t = "undefined" THEN EmptyContact ELSE body.contact.v]

\* mutant: the probe looks at the token only
Configured_TokenOnly(req) == ~Falsy(req.token)

\* hasToken && hasChatId of the probe
Configured(req) == ~Falsy(req.token) /\ ~Falsy(req.chatId)

\* the responses of the handler
HealthResponse(configured) ==
    [status |-> 200, ok |-> "true", sent |-> "absent", allow |-> "",
     telegramConfigured |-> IF configured THEN "true" ELSE "false"]

\* mutant: the 405 response carries no Allow header
MethodNotAllowed_NoAllow ==
    [status |-> 405, ok |-> "absent", sent |-> "absent", allow |-> "",
     telegramConfigured |-> "absent"]

MethodNotAllowed ==
    [status |-> 405, ok |-> "absent", sent |-> "absent", allow |-> "GET, POST",
     telegramConfigured |-> "absent"]

Accepted(sent) ==
    [status |-> 200, ok |-> "true", sent |-> IF sent THEN "true" ELSE "false",
     allow |-> "", telegramConfigured |-> "absent"]

NoResponse == [status |-> 0]

NoText == <<>>

\* no invocation has formatted a payload yet
NoPrevious == [any |-> FALSE]

NoPayload == [answers |-> EmptyAnswers, contact |-> EmptyContact]

IdleHandler ==
    [fn |-> "handler", phase |-> "idle", calls |-> 0, payload |-> NoPayload,
     text |-> NoText, response |-> NoResponse, prev |-> NoPrevious]

\* the invocation has answered
Answered(r, response) == [r EXCEPT !.phase = "done", !.response = response]

\* mutant: only the token is required before the outbound call
HandlerEntry_TokenOnly(r, req) ==
    LET fresh == [r EXCEPT !.calls = 0, !.payload = NoPayload, !.text = NoText,
                           !.response = NoResponse,
                           !.prev = IF r.text # NoText
                                    THEN [any |-> TRUE, payload |-> r.payload,
                                          text |-> r.text, token |-> arg.token]
                                    ELSE r.prev] IN
    IF req.method = "GET"
    THEN Answered(fresh, HealthResponse(Configured(req)))
    ELSE IF req.method # "POST" THEN Answered(fresh, MethodNotAllowed)
    ELSE IF Falsy(req.token) THEN Answered(fresh, Accepted(FALSE))
    ELSE LET body == ParsedBody(req.body) IN
         IF body.t = "null" THEN Answered(fresh, Accepted(FALSE))
         ELSE [fresh EXCEPT !.phase = "fetching",
                            !.calls = 1,
                            !.payload = PayloadOf(body),
                            !.text = formatPayloadForTelegram(PayloadOf(body))]

\* the handler from its entry to its first await or to its response
HandlerEntry(r, req) ==
    LET fresh == [r EXCEPT !.calls = 0, !.payload = NoPayload, !.text = NoText,
                           !.response = NoResponse,
                           !.prev = IF r.text # NoText
                                    THEN [any |-> TRUE, payload |-> r.payload,
                                          text |-> r.text, token |-> arg.token]
                                    ELSE r.prev] IN
    IF req.method = "GET"
    THEN Answered(fresh, HealthResponse(Configured(req)))
    ELSE IF req.method # "POST" THEN Answered(fresh, MethodNotAllowed)
    ELSE IF Falsy(req.token) \/ Falsy(req.chatId) THEN Answered(fresh, Accepted(FALSE))
    ELSE LET body == ParsedBody(req.body) IN
         IF body.t = "null" THEN Answered(fresh, Accepted(FALSE))
         ELSE [fresh EXCEPT !.phase = "fetching",
                            !.calls = 1,
                            !.payload = PayloadOf(body),
                            !.text = formatPayloadForTelegram(PayloadOf(body))]

\* mutant: every JSON object in reply counts as delivered
AfterFetch_IgnoresOk(r, reply) ==
    IF reply.t = "networkError" THEN Answered(r, Accepted(FALSE))
    ELSE IF reply.t = "nonJson" THEN Answered(r, Accepted(FALSE))
    ELSE IF reply.t = "jsonNull" THEN Answered(r, Accepted(FALSE))
    ELSE Answered(r, Accepted(TRUE))

\* mutant: a call that fails at the network level is made once more
AfterFetch_RetryOnce(r, reply) ==
    IF reply.t = "networkError"
    THEN (IF r.calls < 2 THEN [r EXCEPT !.calls = @ + 1] ELSE Answered(r, Accepted(FALSE)))
    ELSE IF reply.t = "nonJson" THEN Answered(r, Accepted(FALSE))
    ELSE IF reply.t = "jsonNull" THEN Answered(r, Accepted(FALSE))
    ELSE IF reply.ok # "true" THEN Answered(r, Accepted(FALSE))
    ELSE Answered(r, Accepted(TRUE))

\* the handler from the settling of fetch to its response: a rejected fetch and
\* a reply of JSON null (data.ok throws) end in the outer catch
AfterFetch(r, reply) ==
    IF reply.t = "networkError" THEN Answered(r, Accepted(FALSE))
    ELSE IF reply.t = "nonJson" THEN Answered(r, Accepted(FALSE))
    ELSE IF reply.t = "jsonNull" THEN Answered(r, Accepted(FALSE))
    ELSE IF reply.ok # "true" THEN Answered(r, Accepted(FALSE))
    ELSE Answered(r, Accepted(TRUE))

\* a request reaches the handler, which runs to its first await or to its response
handlerCall(req) ==
    /\ res.phase \in {"idle", "done"}
    /\ arg' = req
    /\ res' = HandlerEntry(res, req)
    /\ UNCHANGED <<step, answers, contact, consent, errors, submitting, submitted,
                   confettiFiredRef, showExitConfirm, showInitialLoad, startTimers,
                   loadingTimer, inflight, delivered, alive, last>>

\* the outbound call settles and the handler runs to its response
DownstreamSettle(reply) ==
    /\ res.phase = "fetching"
    /\ res' = AfterFetch(res, reply)
    /\ UNCHANGED <<arg, step, answers, contact, consent, errors, submitting, submitted,
                   confettiFiredRef, showExitConfirm, showInitialLoad, startTimers,
                   loadingTimer, inflight, delivered, alive, last>>

RelayMethods == {"GET", "POST", "PUT"}

RelayEnvValues == {Undefined, Str(""), Str("set")}

RelayTokens == RelayEnvValues \cup {Str("other")}

\* answers as the wizard sends them, with q1 and q2 both unanswered or both answered
RelayAnswers ==
    {[k \in FormatKeySet |->
         IF k = "industry" THEN Undefined
         ELSE IF k = "q2" THEN Arr(sel)
         ELSE IF k = "q1" THEN Str(IF sel = <<>> THEN "" ELSE "Not sure")
         ELSE Str("")] :
        sel \in {<<>>, <<"Sales">>}}

RelayContacts ==
    {[firstName |-> Str("A"), email |-> Str("a@b.c"), phone |-> Str("(555) 123-4567"),
      company |-> Str("")]}

RelayObjects ==
    {[t |-> "object", answers |-> a, contact |-> c] :
        a \in {Undefined} \cup {[t |-> "object", v |-> x] : x \in RelayAnswers},
        c \in {Undefined} \cup {[t |-> "object", v |-> x] : x \in RelayContacts}}

\* the body as the framework hands it over: absent, already an object, or text
\* that does not parse, parses to null, or parses to an object
RelayBodies ==
    {[t |-> "null"]}
    \cup RelayObjects
    \cup {[t |-> "text", parses |-> FALSE]}
    \cup {[t |-> "text", parses |-> TRUE, v |-> [t |-> "null"]]}
    \cup {[t |-> "text", parses |-> TRUE, v |-> o] :
             o \in {x \in RelayObjects : x.contact.t # "undefined"}}

\* a POST carries any of the bodies, the other methods none or an object
RelayRequests ==
    {r \in [method : RelayMethods, body : RelayBodies, token : RelayTokens,
            chatId : RelayEnvValues] :
        r.method = "POST" \/ r.body.t = "null"
            \/ (r.body.t = "object" /\ r.body.answers.t = "undefined"
                  /\ r.body.contact.t = "undefined")}

\* what the notification endpoint does with the call
RelayReplies ==
    {[t |-> "networkError"], [t |-> "nonJson"], [t |-> "jsonNull"]}
    \cup {[t |-> "jsonObject", ok |-> o] : o \in {"true", "false", "absent"}}

RelayInit ==
    /\ WizardInit
    /\ arg = NoArg
    /\ res = IdleHandler

RelayNext ==
    \/ \E req \in RelayRequests : handlerCall(req)
    \/ \E reply \in RelayReplies : DownstreamSettle(reply)

RelaySpec == RelayInit /\ [][RelayNext]_vars

ClaimMissing(value) == value = Undefined \/ value = Str("")

\* C22: a POST served with the token or the destination identifier missing is
\* answered 200 {ok: true, sent: false} whatever its body, and no outbound call
\* is made for it at any point
C22_MissingSecretsNoCall ==
    (res.fn = "handler" /\ res.phase # "idle" /\ arg.method = "POST"
        /\ (ClaimMissing(arg.token) \/ ClaimMissing(arg.chatId))) =>
            /\ res.phase = "done"
            /\ res.calls = 0
            /\ res.response.status = 200
            /\ res.response.ok = "true"
            /\ res.response.sent = "false"

\* a POST with answers in its body was answered with the destination unset
C22_Witness ==
    /\ res.fn = "handler" /\ res.phase = "done" /\ arg.method = "POST"
    /\ arg.token = Str("set") /\ arg.chatId = Undefined
    /\ arg.body.t = "object" /\ arg.body.answers.t = "object"
    /\ res.response = Accepted(FALSE) /\ res.calls = 0

\* the downstream call completed with a JSON body whose ok field is true
ClaimDelivered(reply) == reply = [t |-> "jsonObject", ok |-> "true"]

\* C23: a POST served with both secrets set is answered with status 200 and
\* ok: true, never anything else; when the outbound call settles, sent is true
\* exactly if it completed with a JSON body whose ok is true, and false after a
\* network failure, a non-JSON body, or ok false or absent
C23_LenientAlways200 ==
    /\ []((res.fn = "handler" /\ res.phase = "done" /\ arg.method = "POST"
            /\ ~ClaimMissing(arg.token) /\ ~ClaimMissing(arg.chatId)) =>
               /\ res.response.status = 200
               /\ res.response.ok = "true"
               /\ res.response.sent \in {"true", "false"}
               /\ res.calls = 0 => res.response.sent = "false")
    /\ [][\A reply \in RelayReplies : DownstreamSettle(reply) =>
             /\ res'.phase = "done"
             /\ res'.response.status = 200
             /\ res'.response.ok = "true"
             /\ res'.response.sent = (IF ClaimDelivered(reply) THEN "true" ELSE "false")]_vars

\* a delivery went through and was reported as sent
C23_Witness ==
    /\ res.fn = "handler" /\ res.phase = "done" /\ arg.method = "POST"
    /\ res.calls = 1 /\ res.response = Accepted(TRUE)

\* C24: an invocation makes at most one outbound call: whatever the first call
\* comes to, the handler answers without calling again
C24_AtMostOneOutboundCall ==
    /\ [](res.fn = "handler" => res.calls <= 1)
    /\ [][\A reply \in RelayReplies : DownstreamSettle(reply) =>
             res'.calls = res.calls /\ res'.phase = "done"]_vars

\* the one call was made and failed, and the handler answered
C24_Witness ==
    /\ res.fn = "handler" /\ res.phase = "done" /\ res.calls = 1
    /\ res.response = Accepted(FALSE)

\* a POST of a submission served in the environment of req goes on to the
\* outbound call
PostWouldAttempt(req) ==
    \A o \in RelayObjects :
        HandlerEntry(IdleHandler, [req EXCEPT !.method = "POST", !.body = o]).phase
            = "fetching"

\* C25: a GET is answered 200 with ok: true and telegramConfigured telling
\* whether the token and the destination identifier are both set, with no
\* outbound call; telegramConfigured is true exactly where a POST would go on
\* to the outbound call
C25_ProbeReflectsConfiguration ==
    (res.fn = "handler" /\ res.phase # "idle" /\ arg.method = "GET") =>
        /\ res.phase = "done"
        /\ res.calls = 0
        /\ res.response.status = 200
        /\ res.response.ok = "true"
        /\ res.response.telegramConfigured = "true"
              <=> (~ClaimMissing(arg.token) /\ ~ClaimMissing(arg.chatId))
        /\ res.response.telegramConfigured = "false"
              <=> (ClaimMissing(arg.token) \/ ClaimMissing(arg.chatId))
        /\ res.response.telegramConfigured = "true" <=> PostWouldAttempt(arg)

\* the probe answered false with the token set and the destination empty
C25_Witness ==
    /\ res.fn = "handler" /\ res.phase = "done" /\ arg.method = "GET"
    /\ arg.token = Str("set") /\ arg.chatId = Str("")
    /\ res.response.telegramConfigured = "false"

\* C26: a request of any other method than GET and POST is answered 405 with
\* the Allow header "GET, POST", the same response in every configuration, and
\* no outbound call is made for it
C26_OtherMethods405 ==
    (res.fn = "handler" /\ res.phase # "idle" /\ arg.method \notin {"GET", "POST"}) =>
        /\ res.phase = "done"
        /\ res.calls = 0
        /\ res.response.status = 405
        /\ res.response.allow = "GET, POST"
        /\ res.response.sent = "absent"
        /\ res.response.telegramConfigured = "absent"

\* a PUT was refused with both secrets set
C26_Witness ==
    /\ res.fn = "handler" /\ res.phase = "done" /\ arg.method = "PUT"
    /\ arg.token = Str("set") /\ arg.chatId = Str("set")
    /\ res.response.status = 405

-----------------------------------------------------------------------------
(* The wizard and the relay together: a pending request of the wizard is   *)
(* served by the handler, and submitToBackend turns the response into the  *)
(* resolution or the rejection handleSubmit awaits.  START is pressed once *)
(* per visit of intro and the questions are skipped.                       *)

\* the handler from the request to its response, reply being what the outbound
\* call comes to if it is made
HandlerRun(req, reply) ==
    LET entered == HandlerEntry(IdleHandler, req) IN
    IF entered.phase = "fetching" THEN AfterFetch(entered, reply) ELSE entered

\* mutant: submitToBackend also throws when the response says sent: false
submitToBackendOutcome_RequiresSent(response) ==
    IF response.status >= 200 /\ response.status <= 299 /\ response.sent = "true"
    THEN "resolved"
    ELSE IF response.status = 404 THEN "SUBMIT_NOT_AVAILABLE"
    ELSE "Submission failed"

\* submitToBackend after its fetch: res.ok is a 2xx status; otherwise it throws
\* SUBMIT_NOT_AVAILABLE on 404 and err.error || "Submission failed" on the rest
submitToBackendOutcome(response) ==
    IF response.status >= 200 /\ response.status <= 299 THEN "resolved"
    ELSE IF response.status = 404 THEN "SUBMIT_NOT_AVAILABLE"
    ELSE "Submission failed"

\* the body submitToBackend posts: JSON text of an object with answers and contact
LinkBodies ==
    {[t |-> "text", parses |-> TRUE, v |-> o] :
        o \in {x \in RelayObjects :
                 /\ x.contact.t # "undefined"
                 /\ x.answers.t # "undefined"
                 /\ x.answers.v["q1"] # Str("")}}

\* the handler answers a pending request of the wizard
BackendAnswers(which, body, token, chatId, reply) ==
    LET response == HandlerRun([method |-> "POST", body |-> body, token |-> token,
                                chatId |-> chatId], reply).response
        outcome == submitToBackendOutcome(response) IN
    /\ alive /\ inflight[which] > 0
    /\ IF outcome = "resolved" THEN SubmitResolve(which)
       ELSE SubmitReject(which, outcome)

\* an error message is on the screen: the q2 card and the contact card render it
ErrorShown == MainRendered /\ errors # NoError /\ step \in {"q2", "contact"}

\* the environments of the handler: each secret unset or set
LinkEnvValues == {Undefined, Str("set")}

LinkNext ==
    \/ InitialLoadDone
    \/ StartPress(1)
    \/ StartTimerFire
    \/ LoadingTimerFire
    \/ \E v \in SpecNames : TypeContact("firstName", v)
    \/ \E v \in SpecEmails : TypeContact("email", v)
    \/ \E v \in SpecPhones : TypeContact("phone", v)
    \/ \E b \in BOOLEAN : SetConsent(b)
    \/ PreviousClick
    \/ SkipClick
    \/ NextClick
    \/ \E w \in {"cur", "old"} : \E b \in LinkBodies : \E tk \in LinkEnvValues :
          \E ch \in LinkEnvValues : \E reply \in RelayReplies :
             BackendAnswers(w, b, tk, ch, reply)
    \/ \E w \in {"cur", "old"} : \E f \in {"SUBMIT_NOT_AVAILABLE", "Submission failed"} :
          SubmitReject(w, f)
    \/ handleExit
    \/ ExitCancel
    \/ doResetAudit

LinkSpec == Init /\ [][LinkNext]_vars

\* C27: while a submission is pending, every answer the handler can give, with
\* the secrets missing or set and whatever the outbound call comes to, makes
\* submitToBackend resolve; and every resolution leaves the wizard with
\* submitted set, on final, showing no error message
C27_DeliveryOutcomeInvisible ==
    /\ [](inflight.cur + inflight.old > 0 =>
             \A b \in LinkBodies : \A tk \in LinkEnvValues : \A ch \in LinkEnvValues :
                \A reply \in RelayReplies :
                   submitToBackendOutcome(
                       HandlerRun([method |-> "POST", body |-> b, token |-> tk,
                                   chatId |-> ch], reply).response) = "resolved")
    /\ [][last' = "SubmitResolve" =>
             submitted' /\ step' = "final" /\ ~ErrorShown']_vars

\* the handler answered the submission of this session and the wizard is on final
C27_Witness ==
    /\ last = "SubmitResolve" /\ delivered
    /\ submitted /\ step = "final" /\ ~submitting /\ ~ErrorShown

\* C28: results is never the current step
C28_ResultsNeverCurrent == step # "results"

\* the places where results has branches were passed: Next on q9 led to loading,
\* and Previous on contact led back to q9
C28_Witness ==
    /\ step = "q9" /\ last = "PreviousClick" /\ confettiFiredRef /\ answers.q9 # ""

\* C29: the phone held in contact is a string of at most ten digits and nothing
\* else: no parenthesis, space or hyphen
C29_StoredPhoneRawDigits ==
    /\ Len(contact.phone) <= 10
    /\ \A i \in 1..Len(contact.phone) : contact.phone[i] \in Digits

\* C30: the submitting flag and the submitted flag are never both true
C30_StatusSingleValued == ~(submitting /\ submitted)

\* the actions that move through the wizard
NavigationActions ==
    {"StartClick", "StartTimerFire", "NextClick", "PreviousClick", "SkipClick",
     "LoadingTimerFire"}

\* C31: Start, Next, Previous, Skip and the loading timer leave answers, contact
\* and consent as they were; answers change only by a selection, a toggle, text
\* entry or a confirmed reset, contact only by text entry or a confirmed reset
C31_NavigationKeepsData ==
    [][/\ last' \in NavigationActions =>
             answers' = answers /\ contact' = contact /\ consent' = consent
       /\ answers' # answers =>
             last' \in {"SelectOption", "handleMultiToggle", "TypeQ6", "doResetAudit"}
       /\ contact' # contact => last' \in {"TypeContact", "doResetAudit"}]_vars

\* Previous was pressed on final with answers, contact and consent all given
C31_Witness ==
    /\ last = "PreviousClick" /\ step = "contact"
    /\ answers.q1 # "" /\ contact.firstName # <<>> /\ consent /\ submitted

\* step, the collected data, the error message and the submission flags
WizardData == <<step, answers, contact, consent, errors, submitting, submitted>>

\* C32: EXIT on a step other than intro opens the confirmation and leaves step,
\* data, error message and submission flags as they were; cancelling closes it
\* and leaves them as they were; EXIT on intro leaves them as they were too; a
\* reset is only ever taken with the confirmation open
C32_ResetOnlyOnConfirmation ==
    [][/\ (last' = "handleExit" /\ step # "intro") =>
             showExitConfirm' /\ WizardData' = WizardData
       /\ (last' = "handleExit" /\ step = "intro") =>
             WizardData' = WizardData /\ showExitConfirm' = showExitConfirm
       /\ last' = "ExitCancel" => ~showExitConfirm' /\ WizardData' = WizardData
       /\ last' = "doResetAudit" => showExitConfirm]_vars

\* the confirmation was cancelled on contact with an error message showing
C32_Witness ==
    /\ last = "ExitCancel" /\ step = "contact" /\ ~showExitConfirm
    /\ errors # NoError /\ contact.firstName # <<>>

-----------------------------------------------------------------------------
(* goTo called on its own, from any state the wizard gets to and with any  *)
(* step as its target; arg holds the target of the latest call.  START is  *)
(* pressed once per visit of intro, the questions are skipped, the contact *)
(* form is filled and submitted.                                           *)

goToCall(target) ==
    /\ alive
    /\ goTo(target)
    /\ arg' = target
    /\ last' = "goTo"
    /\ UNCHANGED <<res, answers, contact, consent, submitting, submitted,
                   showExitConfirm, showInitialLoad, startTimers, inflight,
                   delivered, alive>>

GoToNext ==
    \/ InitialLoadDone
    \/ StartPress(1)
    \/ StartTimerFire
    \/ LoadingTimerFire
    \/ \E v \in SpecNames : TypeContact("firstName", v)
    \/ \E v \in SpecEmails : TypeContact("email", v)
    \/ \E v \in SpecPhones : TypeContact("phone", v)
    \/ SetConsent(TRUE)
    \/ SkipClick
    \/ NextClick
    \/ SubmitResolve("cur")
    \/ SubmitReject("cur", "Submission failed")
    \/ \E target \in Steps : goToCall(target)

GoToSpec == Init /\ [][GoToNext]_vars

\* C33: goTo can be called in every state with every step as its target; the
\* call makes the target the current step and clears the error message, and
\* leaves answers, contact, consent, submitting and submitted as they were
C33_GoToUnconditional ==
    /\ [](alive => \A target \in Steps : ENABLED goToCall(target))
    /\ [][last' = "goTo" =>
             /\ step' = arg'
             /\ errors' = NoError
             /\ answers' = answers /\ contact' = contact /\ consent' = consent
             /\ submitting' = submitting /\ submitted' = submitted]_vars

\* goTo jumped to results while a submission was pending
C33_Witness ==
    /\ last = "goTo" /\ arg = "results" /\ step = "results"
    /\ submitting /\ errors = NoError /\ consent

\* C34: a request is sent only on contact, with firstName non-empty, email and
\* phone valid and consent given, and with no submission marked as in progress
C34_RequestOnlyFromValidContact ==
    [][inflight'.cur + inflight'.old > inflight.cur + inflight.old =>
          /\ step = "contact"
          /\ Len(contact.firstName) > 0
          /\ isValidEmail(contact.email)
          /\ isValidPhone(contact.phone)
          /\ consent
          /\ ~submitting]_vars

\* a request has just been sent while one of the session before the reset is
\* still out
C34_Witness ==
    /\ last = "NextClick" /\ step = "contact" /\ submitting
    /\ inflight.cur = 1 /\ inflight.old = 1

\* C35: the step becomes final only in a state whose step is contact
C35_FinalOnlyFromContact ==
    [][(step' = "final" /\ step # "final") => step = "contact"]_vars

\* C36: the first thing that happens after a confirmed reset, unless it is an
\* action of the user, leaves the step on intro, answers and contact empty and
\* submitted false
C36_ResetIsFinal ==
    [][(last = "doResetAudit" /\ last' \notin UserActions) =>
          /\ step' = "intro"
          /\ answers' = InitAnswers
          /\ contact' = InitContact
          /\ ~submitted']_vars

\* C37: a failed request sets an error message and returns submitting to false;
\* submitted is false afterwards, the step is not changed, and answers, contact
\* and consent are as they were
C37_FailureDoesNotAdvance ==
    [][last' = "SubmitReject" =>
          /\ errors' # NoError
          /\ ~submitting'
          /\ ~submitted'
          /\ step' = step
          /\ answers' = answers /\ contact' = contact /\ consent' = consent]_vars

\* C38: every change of step leaves the error message empty, so a message
\* shown on q2 is the selection-limit message and a message shown on contact
\* is a contact validation or submission message
ContactMessages ==
    {ErrRequired, ErrEmail, ErrPhone, ErrConsent, ErrNotAvailable, ErrGeneric}

C38_ErrorOnlyOnItsStep ==
    /\ [][step' # step => errors' = NoError]_vars
    /\ [](step = "q2" => errors \in {NoError, ErrSelectLimit})
    /\ [](step = "contact" => errors \in ContactMessages \cup {NoError})

\* C39: every transition into q1 starts from intro by the Start timeout or
\* from q2 by Previous
C39_IntoQ1OnlyFromIntroOrQ2 ==
    [][(step' = "q1" /\ step # "q1") =>
          \/ step = "intro" /\ last' = "StartTimerFire"
          \/ step = "q2" /\ last' = "PreviousClick"]_vars

-----------------------------------------------------------------------------
(* The phone field's functions on their own: formatPhoneDisplay is applied *)
(* to a typed value, then getPhoneDigits reads the stored value back or    *)
(* the input's onChange formats the stored value again                     *)

MaxTypedLen == 11

TypedDigits == {"1", "2"}

\* digit strings, and the strings of PhoneInputs that mix a digit and a dash
TypedInputs == PhoneInputs \cup UNION {[1..n -> TypedDigits] : n \in 0..MaxTypedLen}

RoundTripInit ==
    /\ WizardInit
    /\ arg \in TypedInputs
    /\ res = NoResult

formatPhoneDisplayCall ==
    /\ res = NoResult
    /\ res' = [fn |-> "formatPhoneDisplay", v |-> formatPhoneDisplay(arg)]
    /\ UNCHANGED <<arg, step, answers, contact, consent, errors, submitting, submitted,
                   confettiFiredRef, showExitConfirm, showInitialLoad, startTimers,
                   loadingTimer, inflight, delivered, alive, last>>

getPhoneDigitsCall ==
    /\ res.fn = "formatPhoneDisplay"
    /\ res' = [fn |-> "getPhoneDigits", v |-> getPhoneDigits(res.v)]
    /\ UNCHANGED <<arg, step, answers, contact, consent, errors, submitting, submitted,
                   confettiFiredRef, showExitConfirm, showInitialLoad, startTimers,
                   loadingTimer, inflight, delivered, alive, last>>

\* onChange of the phone input fired with the value the input shows
phoneOnChange ==
    /\ res.fn = "formatPhoneDisplay"
    /\ res' = [fn |-> "onChange", shown |-> res.v, v |-> StoredValue("phone", res.v)]
    /\ UNCHANGED <<arg, step, answers, contact, consent, errors, submitting, submitted,
                   confettiFiredRef, showExitConfirm, showInitialLoad, startTimers,
                   loadingTimer, inflight, delivered, alive, last>>

RoundTripNext == formatPhoneDisplayCall \/ getPhoneDigitsCall \/ phoneOnChange

RoundTripSpec == RoundTripInit /\ [][RoundTripNext]_vars

\* s holds digit characters only
IsDigitString(s) == \A i \in 1..Len(s) : s[i] \in Digits

\* C40: for a digit string of at most ten characters getPhoneDigits of its
\* formatted value is the string itself, and formatting a formatted value
\* returns it unchanged
C40_PhoneRoundTrip ==
    /\ (res.fn = "getPhoneDigits" /\ IsDigitString(arg) /\ Len(arg) <= 10)
          => res.v = arg
    /\ res.fn = "onChange" => res.v = res.shown

\* ten digits, both digit characters among them, read back from the display
C40_Witness ==
    /\ res.fn = "getPhoneDigits"
    /\ Len(arg) = 10
    /\ \E i, j \in 1..10 : arg[i] = "1" /\ arg[j] = "2"
    /\ res.v = arg

=============================================================================
